---- MODULE Spec2Model ----
(***************************************************************************)
(* Model of src/logging/rust_logging.rs: the structured JSON formatter,    *)
(* the field visitor, the five filtered sinks installed by init_logging,   *)
(* the buffered file writers and the correlation scopes.                   *)
(***************************************************************************)
EXTENDS Integers, Sequences, FiniteSets, TLC

VARIABLES
    pc,         \* "running" | "exited": the process
    environment,\* the process's ENVIRONMENT variable, "unset" when not set
    subscriber, \* <<>> or <<sink set>>: the global default subscriber
    results,    \* the outcome of every init_logging call so far, in order
    stack,      \* the correlation scopes the running call chain is inside of
    exitKind,   \* how the scope left last ended, "none" after a scope entry
    chan,       \* per file sink: the messages queued for its background writer
    alive,      \* per file sink: its background writer still receives
    accepted,   \* per file sink: lines handed to its non-blocking writer
    written,    \* per file sink: lines the background writer wrote to the file
    emits,      \* number of events raised so far
    last,       \* <<>> or <<the event raised by the last step>>
    out         \* per sink: the lines the last step formatted for it

vars == <<pc, environment, subscriber, results, stack, exitKind, chan, alive,
          accepted, written, emits, last, out>>

(* ------------------------------ bounds -------------------------------- *)

MaxInitCalls == 2
MaxDepth == 2
MaxEmits == 1
MaxFields == 2

(* ------------------------- levels and filters ------------------------- *)

LevelNames == {"ERROR", "WARN", "INFO", "DEBUG", "TRACE"}

\* tracing::Level ordered by verbosity: ERROR is the least verbose.
LevelNum(l) ==
    CASE l = "ERROR" -> 1
      [] l = "WARN"  -> 2
      [] l = "INFO"  -> 3
      [] l = "DEBUG" -> 4
      [] l = "TRACE" -> 5

\* EnvFilter::new(level): one global directive, no target directives.
EnvFilterNew(level) == [default |-> level, directives |-> {}]

\* "target=level".parse::<Directive>(): <<>> on a parse error, else <<d>>.
ParseDirective(target, level) ==
    IF level \in LevelNames /\ target # ""
    THEN <<[level |-> level, target |-> target]>>
    ELSE <<>>

\* EnvFilter::add_directive
AddDirective(f, d) == [f EXCEPT !.directives = @ \cup {d}]

\* EnvFilter::enabled: the directive of the metadata's target decides, the
\* global level otherwise; enabled when the level is at most as verbose.
FilterEnabled(f, meta) ==
    LET own == {d \in f.directives : d.target = meta.target}
    IN  IF own # {}
        THEN \E d \in own : LevelNum(meta.level) <= LevelNum(d.level)
        ELSE LevelNum(meta.level) <= LevelNum(f.default)

\* EnvFilter::try_from_default_env().unwrap_or_else(|_| EnvFilter::new(log_level))
DefaultEnvFilter(rustLog, log_level) ==
    IF rustLog \in LevelNames THEN EnvFilterNew(rustLog) ELSE EnvFilterNew(log_level)

(* ------------------------------ values -------------------------------- *)

JsonString(s) == [t |-> "string", v |-> s]
JsonNumber(n) == [t |-> "number", v |-> n]
JsonBool(b) == [t |-> "bool", v |-> b]

\* format!("{:?}", value): format arguments and enum variants print bare,
\* a string prints quoted.
DebugFormat(v) ==
    IF v.type = "str" THEN "\"" \o v.text \o "\"" ELSE v.text

\* json_log[key] = value, HashMap::insert: insert the key or replace its value
MapSet(j, k, v) == [x \in DOMAIN j \cup {k} |-> IF x = k THEN v ELSE j[x]]

(* --------------------------- field visitor ---------------------------- *)

JsonVisitorNew == [fields |-> <<>>, message |-> <<>>]

record_debug(vis, field) ==
    IF field.name = "message"
    THEN [vis EXCEPT !.message = <<DebugFormat(field.value)>>]
    ELSE [vis EXCEPT !.fields = MapSet(@, field.name, JsonString(DebugFormat(field.value)))]

record_str(vis, field) ==
    IF field.name = "message"
    THEN [vis EXCEPT !.message = <<field.value.text>>]
    ELSE [vis EXCEPT !.fields = MapSet(@, field.name, JsonString(field.value.text))]

record_i64(vis, field) ==
    [vis EXCEPT !.fields = MapSet(@, field.name, JsonNumber(field.value.text))]

record_u64(vis, field) ==
    [vis EXCEPT !.fields = MapSet(@, field.name, JsonNumber(field.value.text))]

record_f64(vis, field) ==
    [vis EXCEPT !.fields = MapSet(@, field.name, JsonNumber(field.value.text))]

record_bool(vis, field) ==
    [vis EXCEPT !.fields = MapSet(@, field.name, JsonBool(field.value.text))]

\* The Visit method the event calls for one field, by the field's value type.
VisitField(vis, field) ==
    CASE field.kind = "debug" -> record_debug(vis, field)
      [] field.kind = "str"   -> record_str(vis, field)
      [] field.kind = "i64"   -> record_i64(vis, field)
      [] field.kind = "u64"   -> record_u64(vis, field)
      [] field.kind = "f64"   -> record_f64(vis, field)
      [] field.kind = "bool"  -> record_bool(vis, field)

RECURSIVE RecordFields(_, _)
\* event.record(&mut visitor): every field of the event, in order.
RecordFields(vis, fields) ==
    IF fields = <<>> THEN vis
    ELSE RecordFields(VisitField(vis, Head(fields)), Tail(fields))

(* ------------------------------- spans -------------------------------- *)

Ids == {"X", "Y"}
SinkNames == <<"stdout", "file", "error", "security", "performance">>
Sinks == {SinkNames[i] : i \in 1..Len(SinkNames)}
FileSinks == Sinks \ {"stdout"}

ModulePath == "off_the_grid::logging"

\* CorrelationId::new(): a fresh UUID, unlike every id in use.
FreshId(stk) == "uuid-" \o ToString(Len(stk) + 1)

\* tracing::info_span!(name, correlation_id = %id): the id is a field of the
\* span; the span's extensions hold what the layers store for it, which is
\* the fields each fmt layer formatted.  `records` counts how often the
\* field was recorded (once at creation, once more by span.record).
NewSpan(name, id, records, enabled_by) ==
    [name |-> name,
     records |-> records,
     enabled_by |-> enabled_by,
     correlation_id |-> id,
     extensions |-> [ty \in {"FormattedFields"} |-> id]]

SpanMeta == [level |-> "INFO", target |-> ModulePath]

\* The layers whose per-layer filter enables a new span; none without a
\* global subscriber.
SpanEnabledBy(sub) ==
    IF sub = <<>> THEN {}
    ELSE {s \in Sinks : FilterEnabled(sub[1][s].filter, SpanMeta)}

RECURSIVE LookupCurrent(_, _)
\* ctx.lookup_current() inside layer s: the innermost entered span that the
\* layer's filter enabled; <<>> when there is none.
LookupCurrent(s, stk) ==
    IF stk = <<>> THEN <<>>
    ELSE IF s \in stk[Len(stk)].enabled_by THEN <<stk[Len(stk)]>>
    ELSE LookupCurrent(s, SubSeq(stk, 1, Len(stk) - 1))

(* ----------------------------- formatter ------------------------------ *)

ServiceName == "off-the-grid-cli"

\* std::env::var("ENVIRONMENT").unwrap_or_else(|_| "development")
EnvironmentTag(env_var) ==
    IF env_var = "unset" THEN "development" ELSE env_var

RECURSIVE AddFields(_, _, _)
\* for (key, value) in visitor.fields { json_log[key] = value }
AddFields(j, fields, keys) ==
    IF keys = {} THEN j
    ELSE LET k == CHOOSE x \in keys : TRUE
         IN  AddFields(MapSet(j, k, fields[k]), fields, keys \ {k})

\* json!({timestamp, level, target, service, environment})
BaseMetadata(event, env_var) ==
    [k \in {"timestamp", "level", "target", "service", "environment"} |->
        CASE k = "timestamp"   -> JsonString("now")
          [] k = "level"       -> JsonString(event.meta.level)
          [] k = "target"      -> JsonString(event.meta.target)
          [] k = "service"     -> JsonString(ServiceName)
          [] k = "environment" -> JsonString(EnvironmentTag(env_var))]

\* A formatter that writes the span key for every event, empty outside a span.
AddContextAlways(j, current) ==
    IF current = <<>> THEN MapSet(j, "span", JsonString(""))
    ELSE MapSet(j, "span", JsonString(current[1].name))

\* if let Some(span) = ctx.lookup_current(): the correlation id when the
\* span's extensions hold a CorrelationId, and the span's name.
AddContext(j, current) ==
    IF current = <<>> THEN j
    ELSE LET withId == IF "CorrelationId" \in DOMAIN current[1].extensions
                       THEN MapSet(j, "correlation_id",
                                   JsonString(current[1].extensions["CorrelationId"]))
                       ELSE j
         IN  MapSet(withId, "span", JsonString(current[1].name))

\* if let Some(message) = visitor.message
AddMessage(j, visitor) ==
    IF visitor.message # <<>>
    THEN MapSet(j, "message", JsonString(visitor.message[1]))
    ELSE j

\* metadata.file() and metadata.line(), when the metadata has them
AddSource(j, meta) ==
    LET withFile == IF meta.file # <<>>
                    THEN MapSet(j, "file", JsonString(meta.file[1]))
                    ELSE j
    IN  IF meta.line # <<>>
        THEN MapSet(withFile, "line", JsonNumber(meta.line[1]))
        ELSE withFile

\* The order a wrong reading of the formatter gives: the message written
\* after the custom fields.
format_event_message_last(current, event, env_var) ==
    LET visitor == RecordFields(JsonVisitorNew, event.fields)
        context == AddContext(BaseMetadata(event, env_var), current)
        fields == AddFields(context, visitor.fields, DOMAIN visitor.fields)
    IN  AddSource(AddMessage(fields, visitor), event.meta)

\* StructuredJsonFormatter::format_event: the JSON object written as one line.
format_event(current, event, env_var) ==
    LET visitor == RecordFields(JsonVisitorNew, event.fields)
        context == AddContext(BaseMetadata(event, env_var), current)
        message == AddMessage(context, visitor)
        fields == AddFields(message, visitor.fields, DOMAIN visitor.fields)
    IN  AddSource(fields, event.meta)

RECURSIVE SpanContext(_, _)
\* The default formatter's span prefix, outermost span first:
\* name{correlation_id=.. [correlation_id=..]}:
SpanContext(s, stk) ==
    IF stk = <<>> THEN ""
    ELSE LET sp == Head(stk)
             one == "correlation_id=" \o sp.correlation_id
             shown == IF sp.records = 2 THEN one \o " " \o one ELSE one
         IN  IF s \in sp.enabled_by
             THEN sp.name \o "{" \o shown \o "}:" \o SpanContext(s, Tail(stk))
             ELSE SpanContext(s, Tail(stk))

\* The fmt layer's default (human-readable) event format.
plain_format(s, stk, event) ==
    [k \in {"timestamp", "level", "spans", "target"} |->
        CASE k = "timestamp" -> JsonString("now")
          [] k = "level"     -> JsonString(event.meta.level)
          [] k = "spans"     -> JsonString(SpanContext(s, stk))
          [] k = "target"    -> JsonString(event.meta.target)]

(* ------------------------------- events ------------------------------- *)

SecurityEventType ==
    {"AuthenticationAttempt", "AuthenticationFailure", "AuthorizationFailure",
     "RateLimitExceeded", "SuspiciousActivity", "ConfigurationChange",
     "PrivilegeEscalation"}

BusinessEventType ==
    {"GridOrderCreated", "GridOrderRedeemed", "GridOrderFailed", "MatcherBotStarted",
     "MatcherBotStopped", "MatcherBotError", "TokenPriceUpdated", "WalletBalanceChanged"}

UserIds == {<<>>, <<"u1">>}

Field(name, kind, type, text) ==
    [name |-> name, value |-> [type |-> type, text |-> text], kind |-> kind]

\* The macros record the source location of the call site.
Meta(target, level, line) ==
    [level |-> level, target |-> target,
     file |-> <<"src/logging/rust_logging.rs">>, line |-> <<line>>]

\* user_id = user_id with an Option<&str>: recorded as a string when Some,
\* not recorded at all when None.
OptionField(name, opt) ==
    IF opt = <<>> THEN <<>> ELSE <<Field(name, "str", "str", opt[1])>>

\* tracing::warn!(target: "security", ...) of log_security_event
SecurityEvent(event_type, user_id) ==
    [meta |-> Meta("security", "WARN", "270"),
     fields |-> <<Field("message", "debug", "args", "Security event occurred"),
                  Field("event_type", "debug", "enum", event_type)>>
                \o OptionField("user_id", user_id)
                \o <<Field("details", "debug", "map", "{}"),
                     Field("security_event", "bool", "bool", "true")>>]

\* tracing::info!(target: "performance", ...) of log_performance_metric
PerformanceEvent(success) ==
    [meta |-> Meta("performance", "INFO", "282"),
     fields |-> <<Field("message", "debug", "args", "Performance metric recorded"),
                  Field("operation", "debug", "display", "checkout"),
                  Field("duration_ms", "f64", "num", "42.5"),
                  Field("success", "bool", "bool", IF success THEN "true" ELSE "false"),
                  Field("details", "debug", "map", "{}"),
                  Field("performance_metric", "bool", "bool", "true")>>]

\* tracing::info!(target: "business", ...) of log_business_event
BusinessEvent(event_type, user_id) ==
    [meta |-> Meta("business", "INFO", "299"),
     fields |-> <<Field("message", "debug", "args", "Business event occurred"),
                  Field("event_type", "debug", "enum", event_type)>>
                \o OptionField("user_id", user_id)
                \o <<Field("details", "debug", "map", "{}"),
                     Field("business_event", "bool", "bool", "true")>>]

\* tracing::error!(...) of error_logging::log_error_with_context and
\* log_critical_error: the target is the module path.
ErrorEvent(critical) ==
    [meta |-> Meta(ModulePath, "ERROR", IF critical THEN "378" ELSE "364"),
     fields |-> <<Field("message", "debug", "args",
                        IF critical THEN "Critical error occurred"
                        ELSE "Error occurred with context"),
                  Field("error", "debug", "display", "e"),
                  Field("context", "str", "str", "c"),
                  Field("details", "debug", "map", "{}"),
                  Field("error_chain", "debug", "map", "[e]")>>
                \o (IF critical THEN <<Field("critical", "bool", "bool", "true")>>
                    ELSE <<>>)]

(* ------------------------------- sinks -------------------------------- *)

NoLines == [s \in Sinks |-> <<>>]

\* The five layers of init_logging with the filter and the event format of each.
Layers(env_filter, json_format, security, performance) ==
    [s \in Sinks |->
        CASE s = "stdout" ->
                [filter |-> env_filter, format |-> IF json_format THEN "json" ELSE "plain"]
          [] s = "file" ->
                [filter |-> env_filter, format |-> IF json_format THEN "json" ELSE "plain"]
          [] s = "error" ->
                [filter |-> EnvFilterNew("ERROR"), format |-> "json"]
          [] s = "security" ->
                [filter |-> AddDirective(EnvFilterNew("INFO"), security), format |-> "json"]
          [] s = "performance" ->
                [filter |-> AddDirective(EnvFilterNew("INFO"), performance), format |-> "json"]]

\* A set_global_default that replaces the subscriber already installed.
SetGlobalDefaultReplacing(cur, new) == [result |-> "Ok", subscriber |-> <<new>>]

\* .init() on the layered registry: set_global_default succeeds only while no
\* global default subscriber is set, and init() panics when it fails.
SetGlobalDefault(cur, new) ==
    IF cur = <<>>
    THEN [result |-> "Ok", subscriber |-> <<new>>]
    ELSE [result |-> "Panic", subscriber |-> cur]

\* An init_logging that installs the layers before it looks at the result of
\* creating the log directory.
init_logging_late_check(cur, dirOk, rustLog, log_level, json_format) ==
    LET security == ParseDirective("security", "INFO")
        performance == ParseDirective("performance", "INFO")
        r == SetGlobalDefault(cur, Layers(DefaultEnvFilter(rustLog, log_level),
                                         json_format, security[1], performance[1]))
    IN  IF ~dirOk THEN [result |-> "Err", subscriber |-> r.subscriber] ELSE r

\* init_logging: the outcome of the call and the global subscriber after it.
init_logging(cur, dirOk, rustLog, log_level, json_format) ==
    IF ~dirOk THEN [result |-> "Err", subscriber |-> cur]
    ELSE LET env_filter == DefaultEnvFilter(rustLog, log_level)
             security == ParseDirective("security", "INFO")
             performance == ParseDirective("performance", "INFO")
         IN  IF security = <<>> THEN [result |-> "Err", subscriber |-> cur]
             ELSE IF performance = <<>> THEN [result |-> "Err", subscriber |-> cur]
             ELSE SetGlobalDefault(cur,
                      Layers(env_filter, json_format, security[1], performance[1]))

\* One layer's on_event: the line its formatter hands to the layer's writer.
FormatLine(layer, s, stk, event, env_var) ==
    IF layer.format = "json"
    THEN [format |-> "json", log |-> format_event(LookupCurrent(s, stk), event, env_var)]
    ELSE [format |-> "plain", log |-> plain_format(s, stk, event)]

RECURSIVE OnEventShortCircuit(_, _, _, _, _)
\* A dispatch that stops at the first layer whose filter rejects the event.
OnEventShortCircuit(layers, names, stk, event, env_var) ==
    IF names = <<>> THEN <<>>
    ELSE LET s == Head(names)
         IN  IF FilterEnabled(layers[s].filter, event.meta)
             THEN MapSet(OnEventShortCircuit(layers, Tail(names), stk, event, env_var),
                         s, <<FormatLine(layers[s], s, stk, event, env_var)>>)
             ELSE [x \in {names[i] : i \in 1..Len(names)} |-> <<>>]

RECURSIVE OnEvent(_, _, _, _, _)
\* The layered subscriber's dispatch of one event: every layer of the stack
\* is asked in turn, and a layer whose own filter enables the event formats it.
OnEvent(layers, names, stk, event, env_var) ==
    IF names = <<>> THEN <<>>
    ELSE LET s == Head(names)
             rest == OnEvent(layers, Tail(names), stk, event, env_var)
             line == IF FilterEnabled(layers[s].filter, event.meta)
                     THEN <<FormatLine(layers[s], s, stk, event, env_var)>>
                     ELSE <<>>
         IN  MapSet(rest, s, line)

\* Dispatch to the global default subscriber; without one the event is dropped.
Dispatch(sub, stk, event, env_var) ==
    IF sub = <<>> THEN NoLines
    ELSE OnEvent(sub[1], SinkNames, stk, event, env_var)

\* tracing_appender's default capacity of a non-blocking writer's queue.
BufferedLinesLimit == 128000

\* NonBlocking::write in lossy mode: try_send; the line is dropped when the
\* queue is full or the worker has gone.
TrySend(queue, connected, lines) ==
    IF lines # <<>> /\ connected /\ Len(queue) < BufferedLinesLimit
    THEN Append(queue, "Line")
    ELSE queue

(* ------------------------------ actions ------------------------------- *)

Init ==
    /\ pc = "running"
    /\ environment = "unset"
    /\ subscriber = <<>>
    /\ results = <<>>
    /\ stack = <<>>
    /\ exitKind = "none"
    /\ chan = [s \in FileSinks |-> <<>>]
    /\ alive = [s \in FileSinks |-> FALSE]
    /\ accepted = [s \in FileSinks |-> 0]
    /\ written = [s \in FileSinks |-> 0]
    /\ emits = 0
    /\ last = <<>>
    /\ out = NoLines

\* The inputs the calls are drawn from.  RUST_LOG is unset or names a level.
RustLogs == {"unset", "ERROR"}
LogLevels == {"INFO"}
EventTypes == {"AuthenticationFailure", "RateLimitExceeded", "GridOrderCreated"}

\* init_logging(log_level, json_format), called at start-up, outside every
\* correlation scope.  A call that gets past the log
\* directory spawns the four background writers; their guards are locals
\* of the call, so each writer is told to shut down as the call returns.
\* Only the writers of the installed layers stay reachable.
InitLogging ==
    /\ pc = "running"
    /\ Len(results) < MaxInitCalls
    /\ stack = <<>>
    /\ \E dirOk \in BOOLEAN, rustLog \in RustLogs,
          log_level \in LogLevels, json_format \in BOOLEAN :
          LET r == init_logging(subscriber, dirOk, rustLog, log_level, json_format)
          IN  /\ subscriber' = r.subscriber
              /\ results' = Append(results, r.result)
              /\ IF r.result = "Ok"
                 THEN /\ chan' = [s \in FileSinks |-> <<"Shutdown">>]
                      /\ alive' = [s \in FileSinks |-> TRUE]
                 ELSE UNCHANGED <<chan, alive>>
    /\ last' = <<>>
    /\ out' = NoLines
    /\ UNCHANGED <<pc, environment, stack, exitKind, accepted, written, emits>>

\* with_correlation_id(id, f), up to the call of f: the span "request" is
\* created with the id as a field, entered, and the field recorded again.
WithCorrelationId ==
    /\ pc = "running"
    /\ Len(stack) < MaxDepth
    /\ \E id \in Ids :
          stack' = Append(stack, NewSpan("request", id, 2, SpanEnabledBy(subscriber)))
    /\ exitKind' = "none"
    /\ last' = <<>>
    /\ out' = NoLines
    /\ UNCHANGED <<pc, environment, subscriber, results, chan, alive, accepted, written, emits>>

\* new_correlation_span(name, f), up to the call of f, with a fresh id.
NewCorrelationSpan ==
    /\ pc = "running"
    /\ Len(stack) < MaxDepth
    /\ stack' = Append(stack, NewSpan("job", FreshId(stack), 1, SpanEnabledBy(subscriber)))
    /\ exitKind' = "none"
    /\ last' = <<>>
    /\ out' = NoLines
    /\ UNCHANGED <<pc, environment, subscriber, results, chan, alive, accepted, written, emits>>

\* f returns or unwinds: the _enter guard is dropped either way and the
\* span is exited.
ExitScope ==
    /\ pc = "running"
    /\ stack # <<>>
    /\ stack' = SubSeq(stack, 1, Len(stack) - 1)
    /\ \E kind \in {"return", "unwind"} : exitKind' = kind
    /\ last' = <<>>
    /\ out' = NoLines
    /\ UNCHANGED <<pc, environment, subscriber, results, chan, alive, accepted, written, emits>>

\* An event is raised: every layer that accepts it formats it and hands the
\* line to its writer; a file layer's writer queues it for the worker.
Raise(event) ==
    /\ pc = "running"
    /\ emits < MaxEmits
    /\ emits' = emits + 1
    /\ last' = <<event>>
    /\ out' = Dispatch(subscriber, stack, event, environment)
    /\ accepted' = [s \in FileSinks |-> accepted[s] + Len(out'[s])]
    /\ chan' = [s \in FileSinks |-> TrySend(chan[s], alive[s], out'[s])]
    /\ UNCHANGED <<pc, environment, subscriber, results, stack, exitKind, alive, written>>

LogSecurityEvent ==
    \E event_type \in SecurityEventType \cap EventTypes, user_id \in UserIds :
        Raise(SecurityEvent(event_type, user_id))

LogPerformanceMetric ==
    \E success \in BOOLEAN : Raise(PerformanceEvent(success))

LogBusinessEvent ==
    \E event_type \in BusinessEventType \cap EventTypes, user_id \in UserIds :
        Raise(BusinessEvent(event_type, user_id))

LogErrorWithContext == Raise(ErrorEvent(FALSE))

LogCriticalError == Raise(ErrorEvent(TRUE))

\* One step of a file sink's background writer: it writes the line it
\* receives, and on the shutdown message it stops and drops the receiver
\* with whatever is still queued.
Worker(s) ==
    /\ pc = "running"
    /\ alive[s]
    /\ chan[s] # <<>>
    /\ IF Head(chan[s]) = "Shutdown"
       THEN /\ alive' = [alive EXCEPT ![s] = FALSE]
            /\ chan' = [chan EXCEPT ![s] = <<>>]
            /\ UNCHANGED written
       ELSE /\ written' = [written EXCEPT ![s] = @ + 1]
            /\ chan' = [chan EXCEPT ![s] = Tail(@)]
            /\ UNCHANGED alive
    /\ last' = <<>>
    /\ out' = NoLines
    /\ UNCHANGED <<pc, environment, subscriber, results, stack, exitKind, accepted,
                   emits>>

\* main returns with every scope left: the process ends, and its threads
\* with it.  No guard is left to flush a queue.
ProcessExit ==
    /\ pc = "running"
    /\ stack = <<>>
    /\ pc' = "exited"
    /\ last' = <<>>
    /\ out' = NoLines
    /\ UNCHANGED <<environment, subscriber, results, stack, exitKind, chan, alive,
                   accepted, written, emits>>

\* An event raised by a tracing macro anywhere else in the application: any
\* fields, with or without a source location in its metadata.
FieldNames == {"message", "span", "file", "user_id"}

FieldValues ==
    {Field(n, "str", "str", "a") : n \in FieldNames}
        \cup {Field(n, "debug", "str", "a") : n \in FieldNames}
        \cup {Field(n, "i64", "num", "-1") : n \in FieldNames}
        \cup {Field(n, "u64", "num", "1") : n \in FieldNames}
        \cup {Field(n, "f64", "num", "1.5") : n \in FieldNames}
        \cup {Field(n, "bool", "bool", "true") : n \in FieldNames}

FieldSeqs == UNION {[1..n -> FieldValues] : n \in 0..MaxFields}

Locations == {<<>>, <<"src/main.rs">>}

ApplicationEvent(fields, file) ==
    [meta |-> [level |-> "ERROR", target |-> "app", file |-> file,
               line |-> IF file = <<>> THEN <<>> ELSE <<"10">>],
     fields |-> fields]

RaiseEvent ==
    /\ emits < MaxEmits
    /\ \E fields \in FieldSeqs, file \in Locations :
          Raise(ApplicationEvent(fields, file))

Lifecycle == InitLogging \/ ProcessExit

Emission ==
    \/ LogSecurityEvent
    \/ LogPerformanceMetric
    \/ LogBusinessEvent
    \/ LogErrorWithContext
    \/ LogCriticalError

Scopes == WithCorrelationId \/ NewCorrelationSpan \/ ExitScope

Workers == \E s \in FileSinks : Worker(s)

\* The whole program.
Next == Lifecycle \/ Emission \/ Scopes \/ Workers

Spec == Init /\ [][Next]_vars

\* The sink router alone: start-up, the emission functions, the background
\* writers and the end of the process, outside every correlation scope.
NextRouter == Lifecycle \/ Emission \/ Workers

SpecRouter == Init /\ [][NextRouter]_vars

\* The formatter on arbitrary events: the process after
\* init_logging("info", true) has returned Ok and the writers have stopped,
\* outside a scope or inside with_correlation_id("X", ..), with one more
\* event to raise (the earlier ones were raised before start-up and dropped).
InitFormat ==
    /\ pc = "running"
    /\ environment \in {"unset", "production"}
    /\ subscriber = init_logging(<<>>, TRUE, "unset", "INFO", TRUE).subscriber
    /\ results = <<"Ok">>
    /\ stack \in {<<>>, <<NewSpan("request", "X", 2, SpanEnabledBy(subscriber))>>}
    /\ exitKind = "none"
    /\ chan = [s \in FileSinks |-> <<>>]
    /\ alive = [s \in FileSinks |-> FALSE]
    /\ accepted = [s \in FileSinks |-> 0]
    /\ written = [s \in FileSinks |-> 0]
    /\ emits = MaxEmits - 1
    /\ last = <<>>
    /\ out = NoLines

SpecFormat == InitFormat /\ [][RaiseEvent]_vars

(* ------------------------------- claims ------------------------------- *)

\* The sinks whose structured JSON formatter wrote a line in the last step.
JsonSinks == {s \in Sinks : out[s] # <<>> /\ out[s][1].format = "json"}

JsonLog(s) == out[s][1].log

Top == stack[Len(stack)]

CarriesId(s, id) ==
    /\ "correlation_id" \in DOMAIN JsonLog(s)
    /\ JsonLog(s)["correlation_id"] = JsonString(id)

HasField(event, name) == \E i \in DOMAIN event.fields : event.fields[i].name = name

Raised == last # <<>> /\ subscriber # <<>>

\* C1: a record emitted inside with_correlation_id(X, f) and formatted by
\* StructuredJsonFormatter carries correlation_id = X, and a record emitted
\* outside every correlation scope carries no correlation_id.
C1_ScopedRecordCarriesId ==
    Raised =>
        \A s \in JsonSinks :
            /\ (stack # <<>> /\ Top.name = "request") => CarriesId(s, Top.correlation_id)
            /\ stack = <<>> => "correlation_id" \notin DOMAIN JsonLog(s)

IsAuthenticationFailure(event) ==
    /\ event.meta.target = "security"
    /\ event.meta.level = "WARN"
    /\ \E i \in DOMAIN event.fields :
          /\ event.fields[i].name = "event_type"
          /\ event.fields[i].value.text = "AuthenticationFailure"

\* C2: an AuthenticationFailure security event raised through
\* log_security_event is accepted by the security sink and rejected by the
\* performance sink, whatever sink set init_logging installed.
C2_SecurityEventRouting ==
    (Raised /\ IsAuthenticationFailure(last[1])) =>
        /\ out["security"] # <<>>
        /\ out["performance"] = <<>>

\* C3: every record a buffered file sink accepted has been written to the
\* file when the process shuts down normally, and the background writer of
\* every installed file sink stays alive while the process runs.
C3_AcceptedIsWritten ==
    /\ pc = "exited" => \A s \in FileSinks : written[s] = accepted[s]
    /\ (pc = "running" /\ subscriber # <<>>) => \A s \in FileSinks : alive[s]

LastResult == results[Len(results)]

\* C4: once a sink set is installed no step replaces or resets it, and an
\* init_logging call made after that ends in an error or changes nothing.
C4_ConfiguredOnce ==
    [][subscriber # <<>> =>
          /\ subscriber' = subscriber
          /\ Len(results') > Len(results) =>
                \/ results'[Len(results')] \in {"Err", "Panic"}
                \/ UNCHANGED <<chan, alive, accepted, written>>]_vars

C4_Witness ==
    /\ subscriber # <<>>
    /\ Len(results) >= 2
    /\ LastResult = "Panic"

\* C5: for every raised event each installed sink gets a line exactly when
\* its own filter enables the event, whatever the other sinks' filters say.
C5_SinksIndependent ==
    Raised =>
        \A s \in Sinks :
            out[s] # <<>> <=> FilterEnabled(subscriber[1][s].filter, last[1].meta)

\* An earlier layer rejected the event and a later layer accepted it.
C5_Witness ==
    /\ Raised
    /\ out["error"] = <<>>
    /\ out["security"] # <<>>
    /\ out["performance"] # <<>>

\* The groups of keys format_event draws on for the last event in sink s.
BaseGroup == BaseMetadata(last[1], environment)

ContextGroup(s) == AddContext(<<>>, LookupCurrent(s, stack))

VisitorOfLast == RecordFields(JsonVisitorNew, last[1].fields)

MessageGroup == AddMessage(<<>>, VisitorOfLast)

FieldsGroup == VisitorOfLast.fields

SourceGroup == AddSource(<<>>, last[1].meta)

\* Every key some group supplies has the value of the last group that
\* supplies it, and every output key comes from a group.
MergedInOrder(log, groups, strict) ==
    /\ strict => DOMAIN log = UNION {DOMAIN groups[i] : i \in DOMAIN groups}
    /\ \A k \in DOMAIN log :
          LET supplying == {i \in DOMAIN groups : k \in DOMAIN groups[i]}
          IN  supplying # {} =>
                  LET i == CHOOSE x \in supplying : \A y \in supplying : y <= x
                  IN  log[k] = groups[i][k]

Optional == {"correlation_id", "span", "file", "line"}

\* The context or the source metadata of the last event has the optional key.
Available(s, k) ==
    LET current == LookupCurrent(s, stack)
    IN  CASE k = "span" -> current # <<>>
          [] k = "correlation_id" ->
                current # <<>> /\ "CorrelationId" \in DOMAIN current[1].extensions
          [] k = "file" -> last[1].meta.file # <<>>
          [] k = "line" -> last[1].meta.line # <<>>

\* C7 as stated: the five base keys always, an optional key only when the
\* context or the source metadata has it, message exactly when the event
\* supplied a field named message.
C7_PresenceRules ==
    Raised =>
        \A s \in JsonSinks :
            /\ DOMAIN BaseGroup \subseteq DOMAIN JsonLog(s)
            /\ \A k \in Optional : k \in DOMAIN JsonLog(s) => Available(s, k)
            /\ "message" \in DOMAIN JsonLog(s) <=> HasField(last[1], "message")

\* C7 as amended: an optional key is present only when the context or the
\* source metadata has it or the event itself supplied a field of that name.
C7_PresenceRulesOrOwnField ==
    Raised =>
        \A s \in JsonSinks :
            /\ DOMAIN BaseGroup \subseteq DOMAIN JsonLog(s)
            /\ \A k \in Optional :
                  k \in DOMAIN JsonLog(s) => Available(s, k) \/ HasField(last[1], k)
            /\ "message" \in DOMAIN JsonLog(s) <=> HasField(last[1], "message")

\* Outside every span a record holds the key span, from a field of the event.
C7_Witness ==
    /\ Raised
    /\ \E s \in JsonSinks :
          /\ LookupCurrent(s, stack) = <<>>
          /\ "span" \in DOMAIN JsonLog(s)

\* C8: a record emitted inside nested scopes carries the id of the innermost
\* one, and after a nested scope has exited, by return or by unwind, a record
\* emitted in the rest of the enclosing scope carries the enclosing id again.
C8_NestedScopesRestore ==
    Raised =>
        \A s \in JsonSinks :
            /\ Len(stack) >= 2 => CarriesId(s, Top.correlation_id)
            /\ (stack # <<>> /\ exitKind \in {"return", "unwind"}) =>
                  CarriesId(s, Top.correlation_id)

\* C9: every field not named message is in the record under its own name
\* with the value the visitor extracted, and a field named message, of any
\* value type, never goes into the visitor's field mapping.
C9_FieldsUnderOwnName ==
    Raised =>
        /\ "message" \notin DOMAIN FieldsGroup
        /\ \A s \in JsonSinks :
              \A i \in DOMAIN last[1].fields :
                  LET name == last[1].fields[i].name
                  IN  name # "message" =>
                          /\ name \in DOMAIN JsonLog(s)
                          /\ JsonLog(s)[name] = FieldsGroup[name]

\* C10: while every init_logging call so far returned Err, no sink set is
\* installed and no background writer is left.
C10_ErrInstallsNothing ==
    (\A i \in DOMAIN results : results[i] = "Err") =>
        /\ subscriber = <<>>
        /\ \A s \in FileSinks : ~alive[s] /\ chan[s] = <<>>

\* A call returned Err and the next call installed the sinks.
C10_Witness ==
    /\ Len(results) = 2
    /\ results[1] = "Err"
    /\ results[2] = "Ok"
    /\ subscriber # <<>>

====
